---- MODULE Spec2Model ----
(***************************************************************************)
(* The sentiment-timeline analytics pipeline of the dashboard              *)
(* (SentimentTimeline component): classifier, transformer, filter stage,   *)
(* statistics aggregator and domain calculator, driven by the search       *)
(* store (results, selectedIndices) and the two local UI states            *)
(* (activeFilter, colorByBias).                                            *)
(*                                                                         *)
(* Conventions of the model:                                               *)
(*  - a JavaScript string is a TLA+ string (a sequence of characters);     *)
(*  - an object is a record; an optional property that is undefined is a   *)
(*    field that is absent from the record's DOMAIN;                       *)
(*  - sentiment values are fixed-point numbers in hundredths (0.1 is 10,   *)
(*    1 is 100); times are integers (seconds in `date`, milliseconds in    *)
(*    x and in the domain); arithmetic is exact.                           *)
(***************************************************************************)
EXTENDS Integers, Sequences, FiniteSets, TLC

(***************************************************************************)
(* Bounds of the model.                                                    *)
(***************************************************************************)
MaxSel == 2          \* longest selectedIndices list
MaxClock == 1        \* how far the wall clock may advance, in ms
Now0 == 100000000    \* wall clock (ms) when the component mounts

(***************************************************************************)
(* String helpers: String.prototype.toLowerCase / includes / substring.    *)
(***************************************************************************)
UpperChars == "ABCDEFGHIJKLMNOPQRSTUVWXYZ"
LowerChars == "abcdefghijklmnopqrstuvwxyz"

lowerChar(c) ==
    IF \E i \in 1..Len(UpperChars) : SubSeq(UpperChars, i, i) = c
    THEN LET i == CHOOSE j \in 1..Len(UpperChars) : SubSeq(UpperChars, j, j) = c
         IN  SubSeq(LowerChars, i, i)
    ELSE c

RECURSIVE toLowerCase(_)
toLowerCase(s) ==
    IF Len(s) = 0 THEN ""
    ELSE lowerChar(SubSeq(s, 1, 1)) \o toLowerCase(SubSeq(s, 2, Len(s)))

includes(s, sub) ==
    \E i \in 0..(Len(s) - Len(sub)) : SubSeq(s, i + 1, i + Len(sub)) = sub

\* s.substring(0, n)
substring0(s, n) == SubSeq(s, 1, IF Len(s) < n THEN Len(s) ELSE n)

\* Array.prototype.some(k => s.includes(k)) over a keyword list
someIncluded(list, s) == \E i \in 1..Len(list) : includes(s, list[i])

(***************************************************************************)
(* Classifier.                                                             *)
(***************************************************************************)
LEFT_SOURCES == <<"cnn", "msnbc", "nyt", "nytimes", "washington post",
                  "huffpost", "vox", "slate", "the guardian">>
RIGHT_SOURCES == <<"fox", "foxnews", "breitbart", "wsj", "wall street journal",
                   "daily wire", "newsmax", "oann", "the blaze">>
SOCIAL_SOURCES == <<"reddit", "r/", "bluesky", "bsky">>

\* `result.bias` is truthy: present and not the empty string
biasTruthy(result) == "bias" \in DOMAIN result /\ result.bias # ""

isSocialSource(result) ==
    LET lowerSource == toLowerCase(result.source)
    IN  someIncluded(SOCIAL_SOURCES, lowerSource) \/ lowerSource = "reddit"

\* variant: outlet keywords are consulted before the explicit bias field
getSourceBiasKeywordFirst(result) ==
    LET lowerSource == toLowerCase(result.source)
    IN  IF someIncluded(LEFT_SOURCES, lowerSource) THEN "left"
        ELSE IF someIncluded(RIGHT_SOURCES, lowerSource) THEN "right"
        ELSE IF biasTruthy(result) /\ result.bias = "left" THEN "left"
        ELSE IF biasTruthy(result) /\ result.bias = "right" THEN "right"
        ELSE "neutral"

getSourceBias(result) ==
    LET lowerSource == toLowerCase(result.source)
    IN  IF biasTruthy(result) /\ result.bias = "left" THEN "left"
        ELSE IF biasTruthy(result) /\ result.bias = "right" THEN "right"
        ELSE IF someIncluded(LEFT_SOURCES, lowerSource) THEN "left"
        ELSE IF someIncluded(RIGHT_SOURCES, lowerSource) THEN "right"
        ELSE "neutral"

\* variant: a source that matches nothing is put in the "left" category
categorizeSourceUnknownLeft(result) ==
    LET lowerSource == toLowerCase(result.source)
    IN  IF someIncluded(SOCIAL_SOURCES, lowerSource)
           \/ toLowerCase(result.source) = "reddit" THEN "social"
        ELSE IF biasTruthy(result) /\ result.bias = "left" THEN "left"
        ELSE IF biasTruthy(result) /\ result.bias = "right" THEN "right"
        ELSE IF someIncluded(LEFT_SOURCES, lowerSource) THEN "left"
        ELSE IF someIncluded(RIGHT_SOURCES, lowerSource) THEN "right"
        ELSE "left"

\* variant: the explicit bias field is consulted before the social keywords
categorizeSourceBiasFirst(result) ==
    LET lowerSource == toLowerCase(result.source)
    IN  IF biasTruthy(result) /\ result.bias = "left" THEN "left"
        ELSE IF biasTruthy(result) /\ result.bias = "right" THEN "right"
        ELSE IF someIncluded(SOCIAL_SOURCES, lowerSource)
                \/ toLowerCase(result.source) = "reddit" THEN "social"
        ELSE IF someIncluded(LEFT_SOURCES, lowerSource) THEN "left"
        ELSE IF someIncluded(RIGHT_SOURCES, lowerSource) THEN "right"
        ELSE "social"

categorizeSource(result) ==
    LET lowerSource == toLowerCase(result.source)
    IN  IF someIncluded(SOCIAL_SOURCES, lowerSource)
           \/ toLowerCase(result.source) = "reddit" THEN "social"
        ELSE IF biasTruthy(result) /\ result.bias = "left" THEN "left"
        ELSE IF biasTruthy(result) /\ result.bias = "right" THEN "right"
        ELSE IF someIncluded(LEFT_SOURCES, lowerSource) THEN "left"
        ELSE IF someIncluded(RIGHT_SOURCES, lowerSource) THEN "right"
        ELSE "social"

(***************************************************************************)
(* Raw results the search backend can return (SearchResult records).       *)
(***************************************************************************)
LongContents ==
    "Lawmakers met late on Tuesday to debate the proposed budget amendments"

FoxStory ==
    [source |-> "Fox News", title |-> "Fox story", url |-> "u1",
     contents |-> "c", date |-> 1, sentiment_score |-> -50]
RedditPost ==
    [source |-> "reddit", title |-> "", url |-> "u2",
     contents |-> LongContents, date |-> 2, sentiment_score |-> 20,
     bias |-> "left"]
CnnStory ==
    [source |-> "CNN", title |-> "", url |-> "u3",
     contents |-> "", date |-> 3, sentiment_score |-> 10,
     bias |-> "right"]
ReutersStory ==
    [source |-> "Reuters", title |-> "", url |-> "u4",
     date |-> 3, sentiment_score |-> -10]
SubredditPost ==
    [source |-> "r/MSNBC", title |-> "Thread", url |-> "u5",
     contents |-> "c", date |-> 2, sentiment_score |-> 100,
     bias |-> "right"]
GuardianStory ==
    [source |-> "The Guardian", title |-> "Guardian story", url |-> "u8",
     contents |-> "c", date |-> 3, sentiment_score |-> -100]
UndatedStory ==
    [source |-> "MSNBC", title |-> "Undated", url |-> "u6",
     contents |-> "c", date |-> 0, sentiment_score |-> 30]
UnscoredStory ==
    [source |-> "Vox", title |-> "Unscored", url |-> "u7",
     contents |-> "c", date |-> 3, bias |-> ""]

RawResults == {FoxStory, RedditPost, CnnStory, ReutersStory, SubredditPost,
               GuardianStory, UndatedStory, UnscoredStory}

\* the responses of the search backend: nothing, a two-item answer and a
\* feed with one item of every kind
Scenario == <<FoxStory, RedditPost>>
Feed == <<FoxStory, RedditPost, CnnStory, ReutersStory, SubredditPost,
          GuardianStory, UndatedStory, UnscoredStory>>
ResultLists == {<<>>, Scenario, Feed}

\* selectedIndices holds 0-based indices into results, in any order and with
\* repetition; Len(Feed) is out of range for every results list
Indices == 0..Len(Feed)

\* the selections that differ from sel by one entry added or removed, and
\* the empty selection
RemoveAt(sel, k) == SubSeq(sel, 1, k - 1) \o SubSeq(sel, k + 1, Len(sel))
NextSelections(sel) ==
    {<<>>}
    \cup {Append(sel, i) : i \in {j \in Indices : Len(sel) < MaxSel}}
    \cup {RemoveAt(sel, k) : k \in DOMAIN sel}

FilterTypes == {"all", "left", "social", "right"}

(***************************************************************************)
(* Transformer (chartData).                                                *)
(***************************************************************************)
abs(v) == IF v < 0 THEN -v ELSE v

\* selectedIndices.map(index => results[index]).filter(r => r !== undefined)
selectedResults(rs, sel) ==
    LET inRange(i) == sel[i] + 1 \in DOMAIN rs
        picked == SelectSeq([i \in DOMAIN sel |-> i], inRange)
    IN  [k \in DOMAIN picked |-> rs[sel[picked[k]] + 1]]

\* variant: the date is not tested
usableAnyDate(r) == "sentiment_score" \in DOMAIN r

\* r.date && r.sentiment_score !== undefined
usable(r) == r.date # 0 /\ "sentiment_score" \in DOMAIN r

\* r.title || r.contents?.substring(0, 60) + '...' || 'Untitled'
\* ('+' binds tighter than '||'; undefined + '...' is "undefined...")
displayTitle(r) ==
    LET truncated == (IF "contents" \in DOMAIN r
                      THEN substring0(r.contents, 60)
                      ELSE "undefined") \o "..."
    IN  IF r.title # "" THEN r.title
        ELSE IF truncated # "" THEN truncated
        ELSE "Untitled"

toPoint(r) ==
    [x |-> r.date * 1000,
     y |-> r.sentiment_score,
     z |-> abs(r.sentiment_score) + 50,
     category |-> categorizeSource(r),
     bias |-> getSourceBias(r),
     isSocial |-> isSocialSource(r),
     source |-> r.source,
     title |-> displayTitle(r),
     url |-> r.url]

\* the transformer's output for each raw result that survives the filter
PointOf == [r \in {q \in RawResults : usable(q)} |-> toPoint(r)]

\* Array.prototype.sort((a, b) => a.x - b.x): stable, ascending in x
RECURSIVE insertByX(_, _)
insertByX(sorted, p) ==
    IF Len(sorted) = 0 THEN <<p>>
    ELSE IF sorted[Len(sorted)].x <= p.x THEN Append(sorted, p)
    ELSE Append(insertByX(SubSeq(sorted, 1, Len(sorted) - 1), p),
                sorted[Len(sorted)])

\* variant: the points are left in selection order
sortByXUnsorted(ps) == ps

RECURSIVE sortByX(_)
sortByX(ps) ==
    IF Len(ps) = 0 THEN <<>>
    ELSE insertByX(sortByX(SubSeq(ps, 1, Len(ps) - 1)), ps[Len(ps)])

chartDataOf(rs, sel) ==
    LET kept == SelectSeq(selectedResults(rs, sel), usable)
    IN  sortByX([k \in DOMAIN kept |-> PointOf[kept[k]]])

(***************************************************************************)
(* Filter stage (filteredData).                                            *)
(***************************************************************************)
\* variant: the filter compares the bias label instead of the category
filteredDataOfByBias(points, active) ==
    IF active = "all" THEN points
    ELSE LET matches(d) == d.bias = active
         IN  SelectSeq(points, matches)

filteredDataOf(points, active) ==
    IF active = "all" THEN points
    ELSE LET matches(d) == d.category = active
         IN  SelectSeq(points, matches)

(***************************************************************************)
(* Statistics aggregator (stats).  avg is the exact quotient num / den.    *)
(***************************************************************************)
RECURSIVE sumY(_)
sumY(ps) == IF Len(ps) = 0 THEN 0 ELSE ps[1].y + sumY(Tail(ps))

\* variant: no guard for the empty subset (avg is 0 / 0)
statsOfUnguarded(points) ==
    LET isPositive(d) == d.y > 10
        isNegative(d) == d.y < -10
        isNeutral(d) == d.y >= -10 /\ d.y <= 10
    IN  [avg |-> [num |-> sumY(points), den |-> Len(points)],
         positive |-> Len(SelectSeq(points, isPositive)),
         negative |-> Len(SelectSeq(points, isNegative)),
         neutral |-> Len(SelectSeq(points, isNeutral))]

\* variant: the positive and negative buckets include their thresholds
statsOfInclusive(points) ==
    IF Len(points) = 0
    THEN [avg |-> [num |-> 0, den |-> 1],
          positive |-> 0, negative |-> 0, neutral |-> 0]
    ELSE LET isPositive(d) == d.y >= 10
             isNegative(d) == d.y <= -10
             isNeutral(d) == d.y >= -10 /\ d.y <= 10
         IN  [avg |-> [num |-> sumY(points), den |-> Len(points)],
              positive |-> Len(SelectSeq(points, isPositive)),
              negative |-> Len(SelectSeq(points, isNegative)),
              neutral |-> Len(SelectSeq(points, isNeutral))]

statsOf(points) ==
    IF Len(points) = 0
    THEN [avg |-> [num |-> 0, den |-> 1],
          positive |-> 0, negative |-> 0, neutral |-> 0]
    ELSE LET isPositive(d) == d.y > 10
             isNegative(d) == d.y < -10
             isNeutral(d) == d.y >= -10 /\ d.y <= 10
         IN  [avg |-> [num |-> sumY(points), den |-> Len(points)],
              positive |-> Len(SelectSeq(points, isPositive)),
              negative |-> Len(SelectSeq(points, isNegative)),
              neutral |-> Len(SelectSeq(points, isNeutral))]

(***************************************************************************)
(* Domain calculator (dateRange).  Date.now() is read twice when the point *)
(* set is empty: nowMin for min, then nowMax for max.  Every x is a        *)
(* multiple of 1000, so 5% of (max - min) is an integer.                   *)
(***************************************************************************)
DayMs == 86400000
HourMs == 3600000

minX(ps) == CHOOSE v \in {ps[i].x : i \in DOMAIN ps} :
                \A i \in DOMAIN ps : v <= ps[i].x
maxX(ps) == CHOOSE v \in {ps[i].x : i \in DOMAIN ps} :
                \A i \in DOMAIN ps : v >= ps[i].x

\* variant: no fallback when 5% of the range is zero
paddingOfNoFallback(min, max) == ((max - min) * 5) \div 100

paddingOf(min, max) ==
    LET fivePercent == ((max - min) * 5) \div 100
    IN  IF fivePercent # 0 THEN fivePercent ELSE HourMs

\* variant: the right edge of a non-empty range is the clock reading
dateRangeOfClocked(points, nowMin, nowMax) ==
    IF Len(points) = 0 THEN [min |-> nowMin - DayMs, max |-> nowMax]
    ELSE LET min == minX(points)
             max == maxX(points)
             padding == paddingOf(min, max)
         IN  [min |-> min - padding, max |-> nowMax]

\* variant: the empty-set fallback reaches back one hour instead of one day
dateRangeOfHour(points, nowMin, nowMax) ==
    IF Len(points) = 0 THEN [min |-> nowMin - HourMs, max |-> nowMax]
    ELSE LET min == minX(points)
             max == maxX(points)
             padding == paddingOf(min, max)
         IN  [min |-> min - padding, max |-> max + padding]

dateRangeOf(points, nowMin, nowMax) ==
    IF Len(points) = 0 THEN [min |-> nowMin - DayMs, max |-> nowMax]
    ELSE LET min == minX(points)
             max == maxX(points)
             padding == paddingOf(min, max)
         IN  [min |-> min - padding, max |-> max + padding]

(***************************************************************************)
(* JavaScript numbers of the trend estimator.  The sums and products of    *)
(* the regression do not fit a machine integer, so an integer is a sign    *)
(* and a magnitude, the magnitude a little-endian sequence of limbs        *)
(* (digits in base LimbBase) without leading zero limbs.  A number (IEEE   *)
(* 754 double) holds an integer exactly only up to MantissaBits            *)
(* significant bits: an operation whose operands are integers (timestamps, *)
(* their sums and products) is rounded to that many bits, to nearest, ties *)
(* to even.  Values that involve a sentiment are exact rationals.          *)
(***************************************************************************)
LimbBits == 15
LimbBase == 2 ^ LimbBits
MantissaBits == 53

RECURSIVE natNorm(_)
natNorm(a) ==
    IF Len(a) = 0 THEN a
    ELSE IF a[Len(a)] = 0 THEN natNorm(SubSeq(a, 1, Len(a) - 1))
    ELSE a

RECURSIVE natOfInt(_)
natOfInt(i) ==
    IF i = 0 THEN <<>> ELSE <<i % LimbBase>> \o natOfInt(i \div LimbBase)

limbAt(a, i) == IF i <= Len(a) THEN a[i] ELSE 0

RECURSIVE natAddFrom(_, _, _, _)
natAddFrom(a, b, i, carry) ==
    IF i > Len(a) /\ i > Len(b) THEN (IF carry = 0 THEN <<>> ELSE <<carry>>)
    ELSE LET s == limbAt(a, i) + limbAt(b, i) + carry
         IN  <<s % LimbBase>> \o natAddFrom(a, b, i + 1, s \div LimbBase)

natAdd(a, b) == natNorm(natAddFrom(a, b, 1, 0))

\* a - b for a >= b
RECURSIVE natSubFrom(_, _, _, _)
natSubFrom(a, b, i, borrow) ==
    IF i > Len(a) THEN <<>>
    ELSE LET d == limbAt(a, i) - limbAt(b, i) - borrow
         IN  IF d < 0 THEN <<d + LimbBase>> \o natSubFrom(a, b, i + 1, 1)
             ELSE <<d>> \o natSubFrom(a, b, i + 1, 0)

natSub(a, b) == natNorm(natSubFrom(a, b, 1, 0))

RECURSIVE natLessFrom(_, _, _)
natLessFrom(a, b, i) ==
    IF i = 0 THEN FALSE
    ELSE IF a[i] # b[i] THEN a[i] < b[i]
    ELSE natLessFrom(a, b, i - 1)

natLess(a, b) ==
    IF Len(a) # Len(b) THEN Len(a) < Len(b) ELSE natLessFrom(a, b, Len(a))

RECURSIVE natMulLimbFrom(_, _, _, _)
natMulLimbFrom(a, d, i, carry) ==
    IF i > Len(a) THEN (IF carry = 0 THEN <<>> ELSE <<carry>>)
    ELSE LET p == a[i] * d + carry
         IN  <<p % LimbBase>> \o natMulLimbFrom(a, d, i + 1, p \div LimbBase)

RECURSIVE natMulFrom(_, _, _)
natMulFrom(a, b, j) ==
    IF j > Len(b) THEN <<>>
    ELSE natAddFrom(natMulLimbFrom(a, b[j], 1, 0),
                    <<0>> \o natMulFrom(a, b, j + 1), 1, 0)

natMul(a, b) == natNorm(natMulFrom(a, b, 1))

\* the bits of a magnitude, least significant first, and back
RECURSIVE limbToBits(_, _)
limbToBits(d, k) ==
    IF k = 0 THEN <<>> ELSE <<d % 2>> \o limbToBits(d \div 2, k - 1)

RECURSIVE natToBitsFrom(_, _)
natToBitsFrom(a, i) ==
    IF i > Len(a) THEN <<>>
    ELSE limbToBits(a[i], LimbBits) \o natToBitsFrom(a, i + 1)

natToBits(a) == natNorm(natToBitsFrom(a, 1))

RECURSIVE bitsToLimb(_)
bitsToLimb(bits) ==
    IF Len(bits) = 0 THEN 0 ELSE bits[1] + 2 * bitsToLimb(Tail(bits))

RECURSIVE natOfBits(_)
natOfBits(bits) ==
    IF Len(bits) = 0 THEN <<>>
    ELSE IF Len(bits) <= LimbBits THEN natNorm(<<bitsToLimb(bits)>>)
    ELSE <<bitsToLimb(SubSeq(bits, 1, LimbBits))>>
             \o natOfBits(SubSeq(bits, LimbBits + 1, Len(bits)))

\* the magnitude a double holds for the integer magnitude a
roundMagnitude(a) ==
    LET bits == natToBits(a)
        dropped == Len(bits) - MantissaBits
    IN  IF Len(a) * LimbBits <= MantissaBits THEN a
        ELSE IF dropped <= 0 THEN a
        ELSE LET kept == SubSeq(bits, dropped + 1, Len(bits))
                 half == bits[dropped] = 1
                 sticky == \E i \in 1..(dropped - 1) : bits[i] = 1
                 up == half /\ (sticky \/ kept[1] = 1)
                 keptNat == natOfBits(kept)
                 rounded == IF up THEN natAdd(keptNat, <<1>>) ELSE keptNat
             IN  natOfBits([i \in 1..dropped |-> 0] \o natToBits(rounded))

\* signed integers
numOfInt(i) == [neg |-> i < 0, mag |-> natOfInt(IF i < 0 THEN -i ELSE i)]
numIsZero(a) == Len(a.mag) = 0
numNeg(a) == [neg |-> ~a.neg /\ ~numIsZero(a), mag |-> a.mag]

numAdd(a, b) ==
    IF a.neg = b.neg THEN [neg |-> a.neg, mag |-> natAdd(a.mag, b.mag)]
    ELSE IF natLess(a.mag, b.mag)
         THEN [neg |-> b.neg, mag |-> natSub(b.mag, a.mag)]
    ELSE IF natLess(b.mag, a.mag)
         THEN [neg |-> a.neg, mag |-> natSub(a.mag, b.mag)]
    ELSE [neg |-> FALSE, mag |-> <<>>]

numSub(a, b) == numAdd(a, numNeg(b))

numMul(a, b) ==
    LET m == natMul(a.mag, b.mag)
    IN  [neg |-> (a.neg # b.neg) /\ Len(m) # 0, mag |-> m]

numLess(a, b) ==
    IF a.neg # b.neg THEN a.neg
    ELSE IF a.neg THEN natLess(b.mag, a.mag)
    ELSE natLess(a.mag, b.mag)

\* the double nearest to the integer a
toDouble(a) == [neg |-> a.neg, mag |-> roundMagnitude(a.mag)]

\* rationals num / den with den # 0
ratOfNum(a) == [num |-> a, den |-> numOfInt(1)]
ratPositiveDen(q) ==
    IF q.den.neg THEN [num |-> numNeg(q.num), den |-> numNeg(q.den)] ELSE q
ratLess(p, q) ==
    LET a == ratPositiveDen(p)
        b == ratPositiveDen(q)
    IN  numLess(numMul(a.num, b.den), numMul(b.num, a.den))
ratEqual(p, q) == numMul(p.num, q.den) = numMul(q.num, p.den)
\* p * k + q for an integer k
ratMulAdd(p, k, q) ==
    [num |-> numAdd(numMul(numMul(p.num, k), q.den), numMul(q.num, p.den)),
     den |-> numMul(p.den, q.den)]

(***************************************************************************)
(* Trend estimator: calculateTrendLine (ordinary least squares) and the    *)
(* trendLines memo.  A fit is Null or a record of two rationals; slope is  *)
(* in hundredths per x unit, intercept in hundredths.                      *)
(***************************************************************************)
Null == [isNull |-> TRUE]

\* data.reduce((acc, d) => acc + d.x, 0): integer operands, rounded
RECURSIVE sumOfX(_, _)
sumOfX(data, k) ==
    IF k = 0 THEN numOfInt(0)
    ELSE toDouble(numAdd(sumOfX(data, k - 1), data[k].x))

\* data.reduce((acc, d) => acc + d.x * d.x, 0): integer operands, rounded
RECURSIVE sumOfXX(_, _)
sumOfXX(data, k) ==
    IF k = 0 THEN numOfInt(0)
    ELSE toDouble(numAdd(sumOfXX(data, k - 1),
                         toDouble(numMul(data[k].x, data[k].x))))

\* data.reduce((acc, d) => acc + d.y, 0)
RECURSIVE sumOfY(_, _)
sumOfY(data, k) ==
    IF k = 0 THEN numOfInt(0) ELSE numAdd(sumOfY(data, k - 1), data[k].y)

\* data.reduce((acc, d) => acc + d.x * d.y, 0)
RECURSIVE sumOfXY(_, _)
sumOfXY(data, k) ==
    IF k = 0 THEN numOfInt(0)
    ELSE numAdd(sumOfXY(data, k - 1), numMul(data[k].x, data[k].y))

\* n * sumXX - sumX * sumX
denominatorOf(data) ==
    LET n == numOfInt(Len(data))
        sum_X == sumOfX(data, Len(data))
        sum_XX == sumOfXX(data, Len(data))
    IN  toDouble(numSub(toDouble(numMul(n, sum_XX)),
                        toDouble(numMul(sum_X, sum_X))))

calculateTrendLine(data) ==
    IF Len(data) < 2 THEN Null
    ELSE LET n == numOfInt(Len(data))
             sum_X == sumOfX(data, Len(data))
             sum_Y == sumOfY(data, Len(data))
             sum_XY == sumOfXY(data, Len(data))
             denominator == denominatorOf(data)
         IN  IF numIsZero(denominator) THEN Null
             ELSE LET slopeNum == numSub(numMul(n, sum_XY), numMul(sum_X, sum_Y))
                  IN  [slope |-> [num |-> slopeNum, den |-> denominator],
                       intercept |->
                           [num |-> numSub(numMul(sum_Y, denominator),
                                           numMul(slopeNum, sum_X)),
                            den |-> numMul(denominator, n)]]

\* Math.max(-1, Math.min(1, v)), in hundredths
clip(v) ==
    LET one == ratOfNum(numOfInt(100))
        minusOne == ratOfNum(numOfInt(-100))
        capped == IF ratLess(one, v) THEN one ELSE v
    IN  IF ratLess(capped, minusOne) THEN minusOne ELSE capped

\* variant: the fitted values are not clipped
generateTrendPointsUnclipped(trend, range) ==
    IF trend = Null THEN <<>>
    ELSE <<[x |-> range.min,
            y |-> ratMulAdd(trend.slope, numOfInt(range.min), trend.intercept)],
           [x |-> range.max,
            y |-> ratMulAdd(trend.slope, numOfInt(range.max), trend.intercept)]>>

generateTrendPoints(trend, range) ==
    IF trend = Null THEN <<>>
    ELSE <<[x |-> range.min,
            y |-> clip(ratMulAdd(trend.slope, numOfInt(range.min),
                                 trend.intercept))],
           [x |-> range.max,
            y |-> clip(ratMulAdd(trend.slope, numOfInt(range.max),
                                 trend.intercept))]>>

\* the {x, y} pairs calculateTrendLine reads from a list of plot points
xyOf(points) ==
    [k \in DOMAIN points |-> [x |-> numOfInt(points[k].x),
                              y |-> numOfInt(points[k].y)]]

\* variant: social posts join a cohort whatever colorByBias is
cohortOfAlways(points, side, byBias) ==
    LET member(d) == d.category = side \/ (d.isSocial /\ d.bias = side)
    IN  SelectSeq(points, member)

\* leftData / rightData
cohortOf(points, side, byBias) ==
    LET member(d) == IF byBias
                     THEN d.category = side \/ (d.isSocial /\ d.bias = side)
                     ELSE d.category = side
    IN  SelectSeq(points, member)

trendLinesOf(points, range, byBias) ==
    LET leftTrend == calculateTrendLine(xyOf(cohortOf(points, "left", byBias)))
        rightTrend == calculateTrendLine(xyOf(cohortOf(points, "right", byBias)))
    IN  [left |-> generateTrendPoints(leftTrend, range),
         right |-> generateTrendPoints(rightTrend, range)]

\* trendLines.left.length >= 2 / trendLines.right.length >= 2
isDrawn(line) == Len(line) >= 2

(***************************************************************************)
(* The component as a state machine.  chartData, filteredData, stats,      *)
(* dateRange and trendLines are the memoised values of the last render; a  *)
(* memo is recomputed exactly when one of its dependencies is replaced.    *)
(***************************************************************************)
VARIABLES results, selectedIndices, activeFilter, colorByBias, clock,
          chartData, filteredData, stats, dateRange, trendLines,
          fit, search, requests

\* the component's own state
componentVars == <<results, selectedIndices, activeFilter, colorByBias, clock,
                   chartData, filteredData, stats, dateRange, trendLines>>
\* the state of the other two specifications of this module (FitSpec: one
\* call of the trend fit; SliceSpec: the search slice of the store)
otherVars == <<fit, search, requests>>

vars == <<componentVars, otherVars>>

\* Date.now() read twice in a row: the clock may advance between the reads
NowReads(t) == {t2 \in {t, t + 1} : t2 <= Now0 + MaxClock}

\* a render after results or selectedIndices was replaced: every memo that
\* depends on them is recomputed
RenderSelection(rs, sel) ==
    LET points == chartDataOf(rs, sel)
        shown == filteredDataOf(points, activeFilter)
    IN  /\ chartData' = points
        /\ filteredData' = shown
        /\ stats' = statsOf(shown)
        /\ \E nowMax \in NowReads(clock) :
               /\ dateRange' = dateRangeOf(points, clock, nowMax)
               /\ clock' = nowMax
        /\ trendLines' = trendLinesOf(points, dateRange', colorByBias)

\* the component right after it is mounted on an empty store
Mounted ==
    /\ results = <<>>
    /\ selectedIndices = <<>>
    /\ activeFilter = "all"
    /\ colorByBias = TRUE
    /\ chartData = chartDataOf(<<>>, <<>>)
    /\ filteredData = filteredDataOf(chartData, "all")
    /\ stats = statsOf(filteredData)
    /\ clock \in NowReads(Now0)
    /\ dateRange = dateRangeOf(chartData, Now0, clock)
    /\ trendLines = trendLinesOf(chartData, dateRange, TRUE)

\* no fit requested
NoFit == [stage |-> "none"]

\* initialState of the search slice
initialState == [query |-> "", results |-> <<>>, status |-> "idle",
                 error |-> Null]

Init ==
    /\ Mounted
    /\ fit = NoFit
    /\ search = initialState
    /\ requests = {}

\* the store replaces state.search.results
ResultsChanged ==
    \E rs \in ResultLists :
        /\ results' = rs
        /\ RenderSelection(rs, selectedIndices)
        /\ UNCHANGED <<selectedIndices, activeFilter, colorByBias>>
        /\ UNCHANGED otherVars

\* the store replaces state.search.selectedIndices
SelectionChanged ==
    \E sel \in NextSelections(selectedIndices) :
        /\ selectedIndices' = sel
        /\ RenderSelection(results, sel)
        /\ UNCHANGED <<results, activeFilter, colorByBias>>
        /\ UNCHANGED otherVars

\* variant: the domain and the trend lines follow the filtered subset
SetActiveFilterRefit ==
    \E f \in FilterTypes :
        /\ Len(chartData) # 0
        /\ activeFilter' = f
        /\ filteredData' = filteredDataOf(chartData, f)
        /\ stats' = statsOf(filteredData')
        /\ dateRange' = dateRangeOf(filteredData', clock, clock)
        /\ trendLines' = trendLinesOf(filteredData', dateRange', colorByBias)
        /\ UNCHANGED <<results, selectedIndices, colorByBias, clock, chartData>>
        /\ UNCHANGED otherVars

\* a filter button is clicked (the buttons are rendered only when chartData
\* is not empty): only filteredData and stats depend on activeFilter
SetActiveFilter ==
    \E f \in FilterTypes :
        /\ Len(chartData) # 0
        /\ activeFilter' = f
        /\ filteredData' = filteredDataOf(chartData, f)
        /\ stats' = statsOf(filteredData')
        /\ UNCHANGED <<results, selectedIndices, colorByBias, clock,
                       chartData, dateRange, trendLines>>
        /\ UNCHANGED otherVars

\* the "By Bias" / "Gray" toggle is clicked (rendered like the buttons):
\* only trendLines depends on colorByBias
SetColorByBias ==
    \E b \in BOOLEAN :
        /\ Len(chartData) # 0
        /\ colorByBias' = b
        /\ trendLines' = trendLinesOf(chartData, dateRange, b)
        /\ UNCHANGED <<results, selectedIndices, activeFilter, clock,
                       chartData, filteredData, stats, dateRange>>
        /\ UNCHANGED otherVars

\* wall-clock time passes
Tick ==
    /\ clock < Now0 + MaxClock
    /\ clock' = clock + 1
    /\ UNCHANGED <<results, selectedIndices, activeFilter, colorByBias,
                   chartData, filteredData, stats, dateRange, trendLines>>
    /\ UNCHANGED otherVars

Next ==
    \/ ResultsChanged
    \/ SelectionChanged
    \/ SetActiveFilter
    \/ SetColorByBias
    \/ Tick

(***************************************************************************)
(* FitSpec: one call of calculateTrendLine and generateTrendPoints on      *)
(* every list of up to MaxFit points over a few x and y values: the        *)
(* instants 0 and 10 and two present-day timestamps ten seconds apart      *)
(* (date * 1000 for a date in 2021), sentiments 0 and 1.                   *)
(***************************************************************************)
MaxFit == 3          \* longest list of points given to the fit

RealTime == numMul(numOfInt(1625528471), numOfInt(1000))
FitXs == {numOfInt(0), numOfInt(10),
          RealTime, numAdd(RealTime, numOfInt(10000))}
FitYs == {numOfInt(0), numOfInt(100)}
FitPoints == [x : FitXs, y : FitYs]
FitInputs == UNION {[1..n -> FitPoints] : n \in 0..MaxFit}
FitRanges == {[min |-> 0, max |-> 10], [min |-> -10, max |-> 30]}

FitInit ==
    /\ Mounted
    /\ search = initialState
    /\ requests = {}
    /\ \E data \in FitInputs, range \in FitRanges :
           fit = [stage |-> "input", data |-> data, range |-> range]

\* const trend = calculateTrendLine(data)
FitCalculate ==
    /\ fit.stage = "input"
    /\ fit' = [stage |-> "fitted", data |-> fit.data, range |-> fit.range,
               trend |-> calculateTrendLine(fit.data)]
    /\ UNCHANGED <<componentVars, search, requests>>

\* generateTrendPoints(trend)
FitGenerate ==
    /\ fit.stage = "fitted"
    /\ fit' = [stage |-> "generated", data |-> fit.data, range |-> fit.range,
               trend |-> fit.trend,
               points |-> generateTrendPoints(fit.trend, fit.range)]
    /\ UNCHANGED <<componentVars, search, requests>>

FitNext ==
    \/ FitCalculate
    \/ FitGenerate

FitSpec == FitInit /\ [][FitNext]_vars

(***************************************************************************)
(* SliceSpec: the search slice of the store.  search is the slice state;   *)
(* requests holds the runSearch thunks that were dispatched and have not   *)
(* settled yet.  A string | null field is Null or Some(string).            *)
(***************************************************************************)
MaxRequests == 2     \* runSearch requests in flight at the same time

Some(v) == [isNull |-> FALSE, value |-> v]

\* String.prototype.trim, for the space character
RECURSIVE trim(_)
trim(str) ==
    IF Len(str) = 0 THEN str
    ELSE IF SubSeq(str, 1, 1) = " " THEN trim(SubSeq(str, 2, Len(str)))
    ELSE IF SubSeq(str, Len(str), Len(str)) = " "
         THEN trim(SubSeq(str, 1, Len(str) - 1))
    ELSE str

Queries == {"", " ", "tax reform"}

\* what fetch / response.json() may throw: Error objects
Thrown == {[isError |-> TRUE, message |-> "Failed to fetch"],
           [isError |-> TRUE, message |-> "Search failed with status 500"]}

\* the ways fetchSearchResults(query) can settle
fetchSearchResults(query) ==
    IF trim(query) = "" THEN {[ok |-> TRUE, value |-> <<>>]}
    ELSE {[ok |-> TRUE, value |-> rs] : rs \in ResultLists}
             \cup {[ok |-> FALSE, err |-> e] : e \in Thrown}

\* the payload creator of runSearch: a value, or rejectWithValue(message)
runSearch(outcome) ==
    IF outcome.ok THEN [fulfilled |-> TRUE, payload |-> outcome.value]
    ELSE [fulfilled |-> FALSE,
          payload |-> Some(IF outcome.err.isError THEN outcome.err.message
                           ELSE "Search request failed")]

RequestIds == 1..MaxRequests

setQuery ==
    \E payload \in Queries :
        /\ search' = [search EXCEPT !.query = payload]
        /\ UNCHANGED <<componentVars, fit, requests>>

clearResults ==
    /\ search' = [search EXCEPT !.results = <<>>, !.status = "idle",
                                !.error = Null]
    /\ UNCHANGED <<componentVars, fit, requests>>

\* dispatch(runSearch(arg)): the pending action is reduced at once
runSearchPending ==
    \E arg \in Queries, id \in RequestIds :
        /\ \A r \in requests : r.requestId # id
        /\ requests' = requests \cup {[requestId |-> id, arg |-> arg]}
        /\ search' = [search EXCEPT !.status = "loading", !.error = Null,
                                    !.query = arg]
        /\ UNCHANGED <<componentVars, fit>>

runSearchFulfilled ==
    \E r \in requests : \E outcome \in fetchSearchResults(r.arg) :
        /\ runSearch(outcome).fulfilled
        /\ requests' = requests \ {r}
        /\ search' = [search EXCEPT !.status = "succeeded",
                                    !.results = runSearch(outcome).payload]
        /\ UNCHANGED <<componentVars, fit>>

runSearchRejected ==
    \E r \in requests : \E outcome \in fetchSearchResults(r.arg) :
        /\ ~runSearch(outcome).fulfilled
        /\ requests' = requests \ {r}
        /\ search' = [search EXCEPT
                          !.status = "failed",
                          !.error = IF runSearch(outcome).payload = Null
                                    THEN Some("Search request failed")
                                    ELSE runSearch(outcome).payload]
        /\ UNCHANGED <<componentVars, fit>>

SliceNext ==
    \/ setQuery
    \/ clearResults
    \/ runSearchPending
    \/ runSearchFulfilled
    \/ runSearchRejected

SliceSpec == Init /\ [][SliceNext]_vars

Spec == Init /\ [][Next]_vars

(***************************************************************************)
(* Auxiliary definitions of the properties.  Every raw result of the model *)
(* has its own url, so a plot point names the result it was made from.     *)
(***************************************************************************)
Points == {chartData[i] : i \in DOMAIN chartData}
RawOf(p) == CHOOSE r \in RawResults : r.url = p.url
HasExplicitBias(r) == "bias" \in DOMAIN r /\ r.bias \in {"left", "right"}
MatchesAny(keywords, name) ==
    \E i \in DOMAIN keywords : includes(toLowerCase(name), keywords[i])

\* the positions of selectedIndices that name a result of the results list
SelectedPositions ==
    {k \in DOMAIN selectedIndices : selectedIndices[k] < Len(results)}
ResultAt(k) == results[selectedIndices[k] + 1]

(***************************************************************************)
(* C1: a plot point whose lowercased source name contains a social keyword *)
(* (isSocial is true) has category "social", whatever its bias field is    *)
(* and whatever outlet keyword its source name also matches.               *)
(***************************************************************************)
C1_SocialWins ==
    \A p \in Points :
        (p.isSocial \/ MatchesAny(SOCIAL_SOURCES, p.source))
            => p.category = "social"

\* a plotted subreddit post with an explicit bias and an outlet keyword in
\* its source name
C1_Witness ==
    \E p \in Points :
        /\ p.isSocial
        /\ HasExplicitBias(RawOf(p))
        /\ MatchesAny(LEFT_SOURCES, p.source)
        /\ p.category = "social"

(***************************************************************************)
(* C2: for a plot point made from a result whose bias field is exactly     *)
(* "left" or "right", the bias label is that field and, when the point is  *)
(* not social, the category is that field too, even when the source name   *)
(* matches the opposite outlet keyword list.                               *)
(***************************************************************************)
C2_ExplicitBiasWins ==
    \A p \in Points :
        HasExplicitBias(RawOf(p)) =>
            /\ p.bias = RawOf(p).bias
            /\ (~p.isSocial => p.category = RawOf(p).bias)

\* a plotted CNN story (a left outlet keyword) with bias "right"
C2_Witness ==
    \E p \in Points :
        /\ ~p.isSocial
        /\ HasExplicitBias(RawOf(p))
        /\ RawOf(p).bias = "right"
        /\ MatchesAny(LEFT_SOURCES, p.source)
        /\ p.bias = "right"
        /\ p.category = "right"

(***************************************************************************)
(* C3: the full plot-point sequence is non-decreasing in x (timeMillis),   *)
(* for any order and repetition of the selected indices.                   *)
(***************************************************************************)
C3_SortedByTime ==
    \A i, j \in DOMAIN chartData : i < j => chartData[i].x <= chartData[j].x

\* two results selected latest first, both plotted, earliest first
C3_Witness ==
    /\ Len(selectedIndices) = 2
    /\ SelectedPositions = {1, 2}
    /\ usable(ResultAt(1)) /\ usable(ResultAt(2))
    /\ ResultAt(1).date > ResultAt(2).date
    /\ Len(chartData) = 2
    /\ chartData[1].x < chartData[2].x

(***************************************************************************)
(* C4: a selected result yields no plot point when its date is zero or its *)
(* sentiment_score is undefined, and every other selected result yields    *)
(* exactly one plot point (per selection) with x = date * 1000 and         *)
(* y = sentiment_score; so the number of plot points is the number of      *)
(* selected results with a usable date and a defined sentiment_score.      *)
(***************************************************************************)
HasDateAndScore(r) == r.date # 0 /\ "sentiment_score" \in DOMAIN r
PlottedPositions == {k \in SelectedPositions : HasDateAndScore(ResultAt(k))}

C4_OnePointPerUsableResult ==
    /\ Len(chartData) = Cardinality(PlottedPositions)
    /\ \A r \in RawResults :
           Cardinality({i \in DOMAIN chartData : chartData[i].url = r.url})
               = Cardinality({k \in PlottedPositions : ResultAt(k) = r})
    /\ \A p \in Points :
           /\ p.x = RawOf(p).date * 1000
           /\ p.y = RawOf(p).sentiment_score

\* an unscored and a usable result selected: one plot point
C4_Witness ==
    /\ Cardinality(SelectedPositions) = 2
    /\ \E k \in SelectedPositions : "sentiment_score" \notin DOMAIN ResultAt(k)
    /\ \E k \in SelectedPositions : HasDateAndScore(ResultAt(k))
    /\ Len(chartData) = 1

(***************************************************************************)
(* C5: the display title of a plot point is the result's title when that   *)
(* is non-empty; otherwise the first 60 characters of contents followed by *)
(* "..." when contents is non-empty; otherwise "Untitled".                 *)
(***************************************************************************)
C5_TitleFallback ==
    \A p \in Points :
        LET r == RawOf(p)
        IN  p.title =
                IF r.title # "" THEN r.title
                ELSE IF "contents" \in DOMAIN r /\ r.contents # ""
                     THEN substring0(r.contents, 60) \o "..."
                     ELSE "Untitled"

(***************************************************************************)
(* C6: with active filter "all" the filtered sequence equals the full      *)
(* plot-point sequence; with "left", "right" or "social" it is exactly the *)
(* points of that category, in their original order; changing the filter   *)
(* leaves the full plot-point sequence unchanged.                          *)
(***************************************************************************)
RECURSIVE OfCategory(_, _)
OfCategory(ps, c) ==
    IF Len(ps) = 0 THEN <<>>
    ELSE (IF ps[1].category = c THEN <<ps[1]>> ELSE <<>>)
             \o OfCategory(Tail(ps), c)

C6_FilterState ==
    /\ activeFilter = "all" => filteredData = chartData
    /\ activeFilter # "all" => filteredData = OfCategory(chartData, activeFilter)

C6_Filter ==
    /\ []C6_FilterState
    /\ [][activeFilter' # activeFilter => chartData' = chartData]_vars

\* a category filter that keeps some points and drops others
C6_Witness ==
    /\ activeFilter = "left"
    /\ Len(filteredData) >= 1
    /\ Len(filteredData) < Len(chartData)
    /\ \E p \in Points : p.category # "left" /\ p.bias = "left"

(***************************************************************************)
(* C7: the statistics are computed over the filtered subset only: when it  *)
(* is empty they are {avg: 0, positive: 0, negative: 0, neutral: 0};       *)
(* otherwise avg is the sum of the sentiments of the filtered subset       *)
(* divided by its size.                                                    *)
(***************************************************************************)
RECURSIVE SumOfY(_, _)
SumOfY(ps, n) == IF n = 0 THEN 0 ELSE SumOfY(ps, n - 1) + ps[n].y

C7_StatsOverFiltered ==
    /\ stats.avg.den # 0
    /\ Len(filteredData) = 0 =>
           /\ stats.avg.num = 0
           /\ stats.positive = 0 /\ stats.negative = 0 /\ stats.neutral = 0
    /\ Len(filteredData) # 0 =>
           stats.avg.num * Len(filteredData)
               = SumOfY(filteredData, Len(filteredData)) * stats.avg.den

\* a filter that matches no point of a non-empty plot-point set
C7_Witness ==
    /\ Len(chartData) # 0
    /\ activeFilter # "all"
    /\ Len(filteredData) = 0
    /\ stats.avg.num = 0
    /\ SumOfY(chartData, Len(chartData)) # 0

(***************************************************************************)
(* C8: every point of the filtered subset is counted in exactly one        *)
(* bucket: positive when y > 0.1, negative when y < -0.1, neutral          *)
(* otherwise (0.1 and -0.1 are neutral); the three counts add up to the    *)
(* size of the filtered subset.                                            *)
(***************************************************************************)
C8_Buckets ==
    LET Shown == DOMAIN filteredData
    IN  /\ stats.positive = Cardinality({i \in Shown : filteredData[i].y > 10})
        /\ stats.negative = Cardinality({i \in Shown : filteredData[i].y < -10})
        /\ stats.neutral =
               Cardinality({i \in Shown : ~(filteredData[i].y > 10)
                                          /\ ~(filteredData[i].y < -10)})
        /\ stats.positive + stats.negative + stats.neutral = Len(filteredData)

\* points at exactly 0.1 and exactly -0.1, both counted neutral
C8_Witness ==
    /\ \E i \in DOMAIN filteredData : filteredData[i].y = 10
    /\ \E i \in DOMAIN filteredData : filteredData[i].y = -10
    /\ stats.neutral = 2
    /\ stats.positive = 0
    /\ stats.negative = 0

(***************************************************************************)
(* C9: when the plot-point set is empty the domain is a range whose max is *)
(* the current time and whose min is that time minus 24 hours, so the      *)
(* range is exactly 86,400,000 ms wide.                                    *)
(***************************************************************************)
C9_ExactDay ==
    Len(chartData) = 0 => dateRange.max - dateRange.min = DayMs

(***************************************************************************)
(* C9, amended: when the plot-point set is empty the domain calculator     *)
(* reads the clock twice; min is the first reading minus 86,400,000 ms and *)
(* max is the second reading, so the width of the range is 86,400,000 ms   *)
(* plus the time that passed between the two readings.                     *)
(***************************************************************************)
C9_TwoReadings ==
    /\ [](Len(chartData) = 0 =>
              /\ dateRange.max - dateRange.min >= DayMs
              /\ dateRange.max - dateRange.min <= DayMs + MaxClock
              /\ dateRange.max <= clock)
    /\ [][(Len(chartData') = 0 /\ dateRange' # dateRange) =>
              /\ dateRange'.min = clock - DayMs
              /\ dateRange'.max = clock'
              /\ dateRange'.max - dateRange'.min = DayMs + (clock' - clock)]_vars

\* a selection that plots nothing, computed while the clock advanced
C9_Witness ==
    /\ Len(selectedIndices) # 0
    /\ Len(chartData) = 0
    /\ dateRange.max = clock
    /\ dateRange.max - dateRange.min = DayMs + 1

(***************************************************************************)
(* C10: for a non-empty plot-point set with least and greatest x min and   *)
(* max, the domain is [min - pad, max + pad] with pad = (max - min) * 0.05 *)
(* when max > min and pad = 3,600,000 ms when max = min; the range has     *)
(* min strictly below max and every plot point lies strictly inside it.    *)
(***************************************************************************)
C10_PaddedDomain ==
    Len(chartData) # 0 =>
        \E lo, hi \in {p.x : p \in Points} :
            /\ \A p \in Points : lo <= p.x /\ p.x <= hi
            /\ \E pad \in {HourMs} \cup 1..(hi - lo) :
                   /\ hi > lo => pad * 20 = hi - lo
                   /\ hi = lo => pad = HourMs
                   /\ dateRange = [min |-> lo - pad, max |-> hi + pad]
            /\ dateRange.min < dateRange.max
            /\ \A p \in Points : dateRange.min < p.x /\ p.x < dateRange.max

\* two points at the same instant: the one-hour fallback pad
C10_Witness ==
    /\ Len(chartData) = 2
    /\ chartData[1].x = chartData[2].x
    /\ chartData[1].url # chartData[2].url
    /\ dateRange.max - dateRange.min = 2 * HourMs

(***************************************************************************)
(* C11: the trend fit returns no line whenever the cohort has fewer than 2 *)
(* points or all its points share the same x, and returns a slope and an   *)
(* intercept in every other case; the trend line of a missing fit is       *)
(* empty.                                                                  *)
(***************************************************************************)
SameX(data) == \A i, j \in DOMAIN data : data[i].x = data[j].x

C11_NoLineIffDegenerate ==
    /\ fit.stage \in {"fitted", "generated"} =>
           (fit.trend = Null <=> (Len(fit.data) < 2 \/ SameX(fit.data)))
    /\ fit.stage = "generated" =>
           (fit.trend = Null => fit.points = <<>>)

(***************************************************************************)
(* C12: for exactly two points with distinct x the fitted line passes      *)
(* through both points (slope = (y2 - y1) / (x2 - x1), intercept =         *)
(* y1 - slope * x1), here up to 0.01 at either point; the points (0,0) and *)
(* (10,1) give slope 0.1 and intercept 0, and the endpoints (0,0) and      *)
(* (10,1) on the domain [0,10].                                            *)
(***************************************************************************)
\* the fitted line at p.x is within 0.01 of p.y
PassesThrough(trend, p) ==
    LET fitted == ratMulAdd(trend.slope, p.x, trend.intercept)
    IN  /\ ratLess(fitted, ratOfNum(numAdd(p.y, numOfInt(1))))
        /\ ratLess(ratOfNum(numSub(p.y, numOfInt(1))), fitted)

C12_ThroughBothPoints ==
    (fit.stage \in {"fitted", "generated"}
     /\ Len(fit.data) = 2 /\ fit.data[1].x # fit.data[2].x) =>
        LET p1 == fit.data[1]
            p2 == fit.data[2]
        IN  /\ fit.trend # Null
            /\ PassesThrough(fit.trend, p1)
            /\ PassesThrough(fit.trend, p2)
            /\ (fit.stage = "generated"
                /\ p1 = [x |-> numOfInt(0), y |-> numOfInt(0)]
                /\ p2 = [x |-> numOfInt(10), y |-> numOfInt(100)]
                /\ fit.range = [min |-> 0, max |-> 10]) =>
                   /\ ratEqual(fit.trend.slope, ratOfNum(numOfInt(10)))
                   /\ ratEqual(fit.trend.intercept, ratOfNum(numOfInt(0)))
                   /\ Len(fit.points) = 2
                   /\ fit.points[1].x = 0
                   /\ ratEqual(fit.points[1].y, ratOfNum(numOfInt(0)))
                   /\ fit.points[2].x = 10
                   /\ ratEqual(fit.points[2].y, ratOfNum(numOfInt(100)))

\* the worked example alone: it does hold
C12_Example ==
    (fit.stage = "generated"
     /\ fit.data = <<[x |-> numOfInt(0), y |-> numOfInt(0)],
                     [x |-> numOfInt(10), y |-> numOfInt(100)]>>
     /\ fit.range = [min |-> 0, max |-> 10]) =>
        /\ fit.trend # Null
        /\ ratEqual(fit.trend.slope, ratOfNum(numOfInt(10)))
        /\ ratEqual(fit.trend.intercept, ratOfNum(numOfInt(0)))
        /\ Len(fit.points) = 2
        /\ fit.points[1].x = 0 /\ fit.points[2].x = 10
        /\ ratEqual(fit.points[1].y, ratOfNum(numOfInt(0)))
        /\ ratEqual(fit.points[2].y, ratOfNum(numOfInt(100)))

(***************************************************************************)
(* Auxiliary definitions of the trend-line properties: the cohort of a     *)
(* side, written position by position, and the value of its fit at x.      *)
(***************************************************************************)
Sides == {"left", "right"}

RECURSIVE Cohort(_, _, _)
Cohort(ps, side, withSocial) ==
    IF Len(ps) = 0 THEN <<>>
    ELSE (IF ps[1].category = side
             \/ (withSocial /\ ps[1].isSocial /\ ps[1].bias = side)
          THEN <<ps[1]>> ELSE <<>>)
             \o Cohort(Tail(ps), side, withSocial)

TrendOf(side) == calculateTrendLine(xyOf(Cohort(chartData, side, colorByBias)))
\* slope * x + intercept
ValueAt(trend, x) == ratMulAdd(trend.slope, numOfInt(x), trend.intercept)

One == ratOfNum(numOfInt(100))
MinusOne == ratOfNum(numOfInt(-100))
InUnitBand(y) == ~ratLess(y, MinusOne) /\ ~ratLess(One, y)
\* y is v brought into [-1, 1]
IsClipped(v, y) ==
    IF ratLess(One, v) THEN ratEqual(y, One)
    ELSE IF ratLess(v, MinusOne) THEN ratEqual(y, MinusOne)
    ELSE ratEqual(y, v)

(***************************************************************************)
(* C13: each of the two trend lines is either empty or exactly two         *)
(* endpoints whose x values are the domain minimum and the domain maximum  *)
(* and whose y values are the fitted values clipped into [-1, 1]; a trend  *)
(* line is drawn exactly when it has 2 endpoints, so no drawn endpoint has *)
(* y outside [-1, 1].                                                      *)
(***************************************************************************)
C13_TwoClippedEndpoints ==
    \A side \in Sides :
        LET line == trendLines[side]
            trend == TrendOf(side)
        IN  /\ Len(line) \in {0, 2}
            /\ isDrawn(line) <=> Len(line) = 2
            /\ Len(line) = 0 <=> trend = Null
            /\ isDrawn(line) =>
                   /\ line[1].x = dateRange.min
                   /\ line[2].x = dateRange.max
                   /\ IsClipped(ValueAt(trend, dateRange.min), line[1].y)
                   /\ IsClipped(ValueAt(trend, dateRange.max), line[2].y)
                   /\ InUnitBand(line[1].y)
                   /\ InUnitBand(line[2].y)

\* a drawn trend line whose fit leaves [-1, 1] inside the domain
C13_Witness ==
    \E side \in Sides :
        /\ isDrawn(trendLines[side])
        /\ ~InUnitBand(ValueAt(TrendOf(side), dateRange.max))
        /\ InUnitBand(trendLines[side][2].y)

(***************************************************************************)
(* C14: the left trend cohort is exactly the points with category "left"   *)
(* when bias coloring is off, and those plus the social points with bias   *)
(* "left" when it is on (symmetrically for right); for the input [Fox News *)
(* without bias, reddit with bias "left"] and bias coloring on, the right  *)
(* cohort is the first point only, the left cohort the second only, and    *)
(* both trend lines are empty.                                             *)
(***************************************************************************)
ScenarioShown ==
    /\ results = Scenario
    /\ selectedIndices = <<0, 1>>
    /\ colorByBias

C14_Cohorts ==
    /\ \A side \in Sides :
           /\ cohortOf(chartData, side, colorByBias)
                  = Cohort(chartData, side, colorByBias)
           /\ trendLines[side]
                  = generateTrendPoints(TrendOf(side), dateRange)
    /\ ScenarioShown =>
           /\ Len(chartData) = 2
           /\ cohortOf(chartData, "right", colorByBias) = <<chartData[1]>>
           /\ cohortOf(chartData, "left", colorByBias) = <<chartData[2]>>
           /\ trendLines = [left |-> <<>>, right |-> <<>>]

\* the scenario of the claim is on screen
C14_Witness ==
    /\ ScenarioShown
    /\ chartData[1].source = "Fox News" /\ chartData[1].bias = "right"
    /\ chartData[2].source = "reddit" /\ chartData[2].isSocial
    /\ trendLines.left = <<>>

(***************************************************************************)
(* C15: changing the active category filter, with the selection and the    *)
(* bias-coloring flag unchanged, leaves the full plot-point sequence, the  *)
(* domain and both trend lines unchanged; only the filtered subset and the *)
(* statistics may change.                                                  *)
(***************************************************************************)
C15_FilterFrame ==
    [][(/\ activeFilter' # activeFilter
        /\ results' = results
        /\ selectedIndices' = selectedIndices
        /\ colorByBias' = colorByBias) =>
           /\ chartData' = chartData
           /\ dateRange' = dateRange
           /\ trendLines' = trendLines]_vars

\* a filter that hides every point of a cohort whose trend line is drawn
C15_Witness ==
    /\ activeFilter = "left"
    /\ Len(filteredData) = 0
    /\ Len(chartData) = 2
    /\ isDrawn(trendLines.right)
    /\ dateRange = dateRangeOf(chartData, clock, clock)

(***************************************************************************)
(* C16: every derived output (full points, filtered points, statistics,    *)
(* domain, both trend lines) is a function of the raw selection, the       *)
(* active filter and the bias-coloring flag alone: two recomputations with *)
(* identical values of these inputs, performed at any two moments, yield   *)
(* identical outputs.  Stated for two consecutive renders.                 *)
(***************************************************************************)
SameInputs ==
    /\ results' = results
    /\ selectedIndices' = selectedIndices
    /\ activeFilter' = activeFilter
    /\ colorByBias' = colorByBias

C16_InputsAlone ==
    [][SameInputs =>
           /\ chartData' = chartData
           /\ filteredData' = filteredData
           /\ stats' = stats
           /\ dateRange' = dateRange
           /\ trendLines' = trendLines]_vars

(***************************************************************************)
(* C16, amended: the full points, the filtered points, the statistics and  *)
(* both trend lines are at every moment the same functions of the raw      *)
(* selection, the active filter and the bias-coloring flag, and so is the  *)
(* domain while the plot-point set is not empty; the domain of an empty    *)
(* plot-point set is made of the clock readings of the render that         *)
(* computed it.                                                            *)
(***************************************************************************)
C16_InputsAndClock ==
    /\ chartData = chartDataOf(results, selectedIndices)
    /\ filteredData = filteredDataOf(chartData, activeFilter)
    /\ stats = statsOf(filteredData)
    /\ Len(chartData) # 0 => dateRange = dateRangeOf(chartData, 0, 0)
    /\ Len(chartData) = 0 =>
           \E nowMin, nowMax \in Now0..clock :
               /\ nowMin <= nowMax
               /\ dateRange = dateRangeOf(chartData, nowMin, nowMax)
    /\ trendLines = trendLinesOf(chartData, dateRange, colorByBias)

\* a render of a non-empty selection after the clock has advanced, with a
\* filter and a coloring other than the initial ones
C16_Witness ==
    /\ clock > Now0
    /\ Len(chartData) = 2
    /\ activeFilter = "right"
    /\ ~colorByBias
    /\ Len(filteredData) = 2
    /\ stats.avg.den = 2
    /\ isDrawn(trendLines.right)

(***************************************************************************)
(* C17: a result whose bias field is not "left" or "right" and whose       *)
(* source name matches no social, left-outlet or right-outlet keyword is   *)
(* classified category "social", bias "neutral", isSocial false; so the    *)
(* "social" filter can return points that are not social posts, and every  *)
(* non-social point has category "social" exactly when its bias label is   *)
(* "neutral" and category equal to its bias label otherwise.               *)
(***************************************************************************)
Unrecognised(r) ==
    /\ ~HasExplicitBias(r)
    /\ ~MatchesAny(SOCIAL_SOURCES, r.source)
    /\ ~MatchesAny(LEFT_SOURCES, r.source)
    /\ ~MatchesAny(RIGHT_SOURCES, r.source)

C17_CatchAll ==
    \A p \in Points :
        /\ Unrecognised(RawOf(p)) =>
               /\ p.category = "social"
               /\ p.bias = "neutral"
               /\ ~p.isSocial
        /\ ~p.isSocial =>
               /\ p.category = "social" <=> p.bias = "neutral"
               /\ p.bias # "neutral" => p.category = p.bias

\* the "social" filter shows a point that is not a social post
C17_Witness ==
    /\ activeFilter = "social"
    /\ \E i \in DOMAIN filteredData :
           /\ ~filteredData[i].isSocial
           /\ Unrecognised(RawOf(filteredData[i]))
           /\ filteredData[i].bias = "neutral"
    /\ \E p \in Points : ~p.isSocial /\ p.bias # "neutral"

(***************************************************************************)
(* C18: in the search slice, after any interleaving of setQuery,           *)
(* clearResults and the pending, fulfilled and rejected events of          *)
(* overlapping runSearch requests, the error field is non-null only while  *)
(* status is "failed".                                                     *)
(***************************************************************************)
C18_ErrorOnlyWhenFailed ==
    search.error # Null => search.status = "failed"

====
